---------------------------- MODULE Spec2Model ----------------------------
(***************************************************************************)
(* Model of the jupyter-agent backend's session manager                    *)
(* (backend/kernel_manager.py) and of the HTTP handlers that drive it      *)
(* (backend/main.py).                                                      *)
(*                                                                         *)
(* The backend is a single asyncio event loop.  A handler runs without     *)
(* interruption from one `await` to the next, so one action of the model   *)
(* is one such segment of a handler: the code from the completion of an    *)
(* awaited call up to the next await (or the return).  Blocking library    *)
(* calls run in the default thread-pool executor; where such a call        *)
(* changes state another handler can observe (the interpreter process      *)
(* being killed) the call's work is an action of its own.                  *)
(*                                                                         *)
(* The interpreter process (jupyter_client / ipykernel) is an external     *)
(* collaborator: it is modelled by the message protocol the code relies    *)
(* on (status busy, execute_input, outputs, error, status idle).           *)
(***************************************************************************)
EXTENDS Naturals, Integers, Sequences, FiniteSets, TLC

\* ------------------------------------------------------------------ bounds
\* Number of HTTP request slots that may be in flight at the same time.
NumTasks == 2
\* Number of sessions createSession may mint in one behaviour.
MaxKernels == 2
\* Number of code submissions (client.execute calls) in one behaviour of the
\* execution specifications, which run one session.
MaxExecs == 2
\* Number of code submissions in one behaviour of the lifecycle specification,
\* which runs MaxKernels sessions.
LifeExecs == 1
\* Number of sessions in the execution specifications.
ExecKernels == 1
\* Number of restart requests accepted in one behaviour.
MaxRestarts == 1

Tasks == 1..NumTasks
KernelIds == 1..MaxKernels
\* Python's None for an object reference / kernel id / msg id / int.
None == 0
\* Python's None where a dict is expected.
NoneDict == [none |-> TRUE]

\* The code submitted by a request, named by what it makes the interpreter do.
\*   "ok"    prints a line
\*   "raise" raises an exception
\*   "show"  prints a line, displays a figure and ends in an expression
\*   "raise2" shows the traceback of an exception it caught, then raises
\*   "spin"  keeps emitting events of a type execute_cell ignores and never
\*           finishes (a progress bar updating a display forever)
Codes == {"ok", "raise", "show", "raise2", "spin"}
\* The code the lifecycle specification submits.
LifeCodes == {"ok"}
CellIds == {"c1"}

\* The events an execution of `code` publishes between execute_input and idle.
Script(code) ==
    CASE code = "ok"     -> <<"stream">>
      [] code = "raise"  -> <<"error">>
      [] code = "show"   -> <<"stream", "display_data", "execute_result">>
      [] code = "raise2" -> <<"error", "error">>
      [] OTHER           -> <<>>
\* Whether an execution of `code` ends by itself (the idle status is published).
Terminates(code) == code \in {"ok", "raise", "show", "raise2"}

VARIABLES
    kernels,    \* KernelManagerService.kernels: insertion-ordered dict, a
                \* sequence of [id, ref] entries
    heap,       \* the NotebookKernel objects ever constructed: ref -> fields
    interp,     \* per KernelManager: its interpreter process
    shellq,     \* per KernelManager: execute requests its process has not read
    iopub,      \* per NotebookKernel client: published events not yet received
    tasks,      \* the request slots: each handler's locals and position
    resp,       \* the request answered last: its locals at the return
    nextId,     \* next fresh uuid4 / object reference
    nextMsg,    \* next fresh msg_id
    nRestarts,  \* restart requests accepted so far (bounds the model)
    shutdowns,  \* history: per object, how often manager.shutdown_kernel ran
    gone,       \* history: ids whose single shutdown call returned successfully
    agent       \* the agent request (repair plan, chat) made last: its
                \* handler's locals and position

vars == <<kernels, heap, interp, shellq, iopub, tasks, resp, nextId, nextMsg,
          nRestarts, shutdowns, gone, agent>>

\* ------------------------------------------------------------- the registry
\* Faulty variant: only the first key is visited
Keys_FirstOnly(d) == [i \in 1..(IF Len(d) = 0 THEN 0 ELSE 1) |-> d[i].id]
\* dict.keys() in insertion order
Keys(d) == [i \in 1..Len(d) |-> d[i].id]
Registered == {kernels[i].id : i \in 1..Len(kernels)}
\* dict.get(kernel_id): the value, or None
DictGet(d, kid) ==
    IF \E i \in 1..Len(d) : d[i].id = kid
    THEN (CHOOSE e \in {d[i] : i \in 1..Len(d)} : e.id = kid).ref
    ELSE None
\* d[kernel_id] = ref, for a key not yet present (uuid4 keys are fresh)
DictSet(d, kid, ref) == Append(d, [id |-> kid, ref |-> ref])
\* Faulty variant: the entry is not deleted
DictDel_Keeps(d, kid) == d
\* del d[kernel_id], for a present key
DictDel(d, kid) == SelectSeq(d, LAMBDA e : e.id # kid)

\* Faulty variant: the lookup also finds sessions that were removed
GetKernel_Stale(kid) ==
    IF \E k \in DOMAIN heap : heap[k].kernel_id = kid /\ heap[k].client # "none"
    THEN CHOOSE k \in DOMAIN heap : heap[k].kernel_id = kid
    ELSE None
\* KernelManagerService.get_kernel
GetKernel(kid) == DictGet(kernels, kid)

\* uuid.uuid4(): an identifier no earlier call has returned.
Uuid4 == nextId
\* Faulty variant: one manager, made for the first session, serves them all
NewManager_Shared(ref) == IF Len(heap) = 0 THEN ref ELSE heap[1].manager
\* KernelManager(): every NotebookKernel constructs a manager of its own.
NewManager(ref) == ref

\* NotebookKernel.__init__
NewKernel(kid, ref) ==
    [kernel_id |-> kid, manager |-> NewManager(ref), client |-> "none",
     is_running |-> FALSE]

\* A KernelManager that has not started a process yet.
NoProcess == [alive |-> FALSE, gen |-> 0, busy |-> None, code |-> "",
              pos |-> 0, count |-> 0, sigint |-> FALSE]

\* The interpreter process owned by session object `ref`: the manager and the
\* generation of the process it runs.
Pid(ref) == <<heap[ref].manager, interp[heap[ref].manager].gen>>

\* ---------------------------------------------------------------- requests
IdleTask ==
    [op |-> "none", pc |-> "idle", sid |-> None, kernel |-> None,
     code |-> "", cell_id |-> "", msg_id |-> None,
     outputs |-> <<>>, error |-> NoneDict, execution_count |-> None,
     keys |-> <<>>, outcome |-> "", result |-> NoneDict,
     \* history fields
     sawError |-> FALSE, endedBy |-> "", reg |-> FALSE, late |-> FALSE,
     gen0 |-> 0, alone |-> FALSE, snap |-> {},
     \* history: the messages get_iopub_msg has returned to this call, of the
     \* types the receive loop has a branch for
     events |-> <<>>]

Free(t) == tasks[t].pc = "idle"
InFlight(t) == ~Free(t)
\* The slot a new request takes: the slots are interchangeable, so it is the
\* first free one.
Slot(t) == Free(t) /\ \A u \in Tasks : u < t => InFlight(u)

\* History of a request on session id sid, taken as it arrives: whether sid is
\* registered, and whether a single shutdown of sid has returned successfully.
Arrival(op, sid) ==
    [IdleTask EXCEPT !.op = op, !.sid = sid, !.reg = sid \in Registered,
                     !.late = sid \in gone]

\* A request that starts while shutdown_all runs is "another operation running".
Disturbed(t) ==
    [u \in Tasks |->
        IF u # t /\ InFlight(u) THEN [tasks[u] EXCEPT !.alone = FALSE]
        ELSE tasks[u]]

\* Slot t's handler has run a segment and its locals are rec: at an await the
\* slot keeps them, at the return the response is sent and the slot is free.
Commit(t, ts, rec) ==
    IF rec.pc = "done"
    THEN /\ tasks' = [ts EXCEPT ![t] = IdleTask]
         /\ resp' = rec
    ELSE /\ tasks' = [ts EXCEPT ![t] = rec]
         /\ UNCHANGED resp

\* A new request in slot t: the handler's locals after its first segment.
Begin(t, rec) == Commit(t, Disturbed(t), rec)

\* No agent request has been made.
NoRequest == [op |-> "", pc |-> "idle"]

\* No session has been created: the empty registry of KernelManagerService.
NoSessions ==
    /\ kernels = <<>>
    /\ heap = <<>>
    /\ interp = <<>>
    /\ shellq = <<>>
    /\ iopub = <<>>
    /\ tasks = [t \in Tasks |-> IdleTask]
    /\ resp = IdleTask
    /\ nextId = 1
    /\ nextMsg = 1
    /\ nRestarts = 0
    /\ shutdowns = <<>>
    /\ gone = {}

Init ==
    /\ agent = NoRequest
    /\ NoSessions

\* ------------------------------------------------------------- createSession
\* main.create_kernel -> KernelManagerService.create_kernel, up to the await
\* of manager.start_kernel inside NotebookKernel.start.
CreateKernel(t, cap) ==
    /\ Slot(t)
    /\ nextId <= cap
    /\ LET kid == Uuid4
           ref == nextId
       IN /\ heap' = Append(heap, NewKernel(kid, ref))
          /\ interp' = Append(interp, NoProcess)
          /\ shellq' = Append(shellq, <<>>)
          /\ iopub' = Append(iopub, <<>>)
          /\ shutdowns' = Append(shutdowns, 0)
          /\ Begin(t, [IdleTask EXCEPT !.op = "create", !.pc = "start",
                                       !.sid = kid, !.kernel = ref])
    /\ nextId' = nextId + 1
    /\ UNCHANGED <<kernels, nextMsg, nRestarts, gone>>
    /\ UNCHANGED agent

\* manager.start_kernel succeeded: the rest of NotebookKernel.start, then the
\* registration in create_kernel and the handler's response.
StartKernelDone(t) ==
    /\ tasks[t].op = "create" /\ tasks[t].pc = "start"
    /\ LET ref == tasks[t].kernel
           m == heap[ref].manager
       IN /\ interp' = [interp EXCEPT ![m] =
                 [NoProcess EXCEPT !.alive = TRUE, !.gen = interp[m].gen + 1]]
          /\ heap' = [heap EXCEPT ![ref].client = "open",
                                  ![ref].is_running = TRUE]
          /\ kernels' = DictSet(kernels, tasks[t].sid, ref)
    /\ Commit(t, tasks, [tasks[t] EXCEPT !.pc = "done", !.outcome = "ok"])
    /\ UNCHANGED <<shellq, iopub, nextId, nextMsg, nRestarts, shutdowns, gone>>
    /\ UNCHANGED agent

\* Faulty variant: a session whose start failed is registered all the same
StartKernelFail_Registers(t) ==
    /\ tasks[t].op = "create" /\ tasks[t].pc = "start"
    /\ kernels' = DictSet(kernels, tasks[t].sid, tasks[t].kernel)
    /\ Commit(t, tasks, [tasks[t] EXCEPT !.pc = "done", !.outcome = "error"])
    /\ UNCHANGED <<heap, interp, shellq, iopub, nextId, nextMsg,
                   nRestarts, shutdowns, gone>>
    /\ UNCHANGED agent
\* manager.start_kernel raised: create_kernel propagates, the handler answers 500.
StartKernelFail(t) ==
    /\ tasks[t].op = "create" /\ tasks[t].pc = "start"
    /\ Commit(t, tasks, [tasks[t] EXCEPT !.pc = "done", !.outcome = "error"])
    /\ UNCHANGED <<kernels, heap, interp, shellq, iopub, nextId, nextMsg,
                   nRestarts, shutdowns, gone>>
    /\ UNCHANGED agent

\* ------------------------------------------------------- the interpreter
\* An iopub message: msg_type, the content fields execute_cell reads, and the
\* msg_id of the request that produced it (what the payload is a payload of).
Msg(type, parent, state, count) ==
    [msg_type |-> type, parent |-> parent, execution_state |-> state,
     execution_count |-> count, seq |-> 0]
\* The payload of a message (data, text, ename, evalue, traceback): told
\* apart by the request that produced it and by its place seq among the
\* events of that execution.
Content(msg) == <<msg.parent, msg.seq>>

\* The process of manager m publishes: every client whose channels are open
\* and whose manager is m receives the messages.
Publish(m, msgs) ==
    iopub' = [k \in DOMAIN iopub |->
                 IF heap[k].manager = m /\ heap[k].client = "open"
                 THEN iopub[k] \o msgs ELSE iopub[k]]

\* The process reads the next execute request: status busy, execute_input.
KernelTake(m) ==
    /\ m \in DOMAIN interp
    /\ interp[m].alive /\ interp[m].busy = None /\ shellq[m] # <<>>
    /\ LET req == Head(shellq[m])
           n == interp[m].count + 1
       IN /\ interp' = [interp EXCEPT ![m].busy = req.msg_id,
                                      ![m].code = req.code,
                                      ![m].pos = 0, ![m].count = n]
          /\ Publish(m, <<Msg("status", req.msg_id, "busy", None),
                          Msg("execute_input", req.msg_id, "", n)>>)
    /\ shellq' = [shellq EXCEPT ![m] = Tail(shellq[m])]
    /\ UNCHANGED <<kernels, heap, tasks, resp, nextId, nextMsg, nRestarts,
                   shutdowns, gone>>
    /\ UNCHANGED agent

\* The running code publishes its next event.
KernelEmit(m) ==
    /\ m \in DOMAIN interp
    /\ interp[m].alive /\ interp[m].busy # None
    /\ interp[m].pos < Len(Script(interp[m].code))
    /\ LET type == Script(interp[m].code)[interp[m].pos + 1]
       IN Publish(m, <<[Msg(type, interp[m].busy, "",
                               IF type = "execute_result"
                               THEN interp[m].count ELSE None)
                            EXCEPT !.seq = interp[m].pos + 1]>>)
    /\ interp' = [interp EXCEPT ![m].pos = interp[m].pos + 1]
    /\ UNCHANGED <<kernels, heap, shellq, tasks, resp, nextId, nextMsg, nRestarts,
                   shutdowns, gone>>
    /\ UNCHANGED agent

\* Code that never finishes publishes one more event of a type execute_cell
\* has no branch for.  At most one such event waits in a client's queue, which
\* keeps the queues finite without stopping the emitter.
KernelSpin(m) ==
    /\ m \in DOMAIN interp
    /\ interp[m].alive /\ interp[m].busy # None /\ interp[m].code = "spin"
    /\ \A k \in DOMAIN iopub :
          heap[k].manager = m =>
             \A i \in 1..Len(iopub[k]) :
                 iopub[k][i].msg_type # "update_display_data"
    /\ Publish(m, <<Msg("update_display_data", interp[m].busy, "", None)>>)
    /\ UNCHANGED <<kernels, heap, interp, shellq, tasks, resp, nextId, nextMsg,
                   nRestarts, shutdowns, gone>>
    /\ UNCHANGED agent

\* The running code has finished: status idle.
KernelIdle(m) ==
    /\ m \in DOMAIN interp
    /\ interp[m].alive /\ interp[m].busy # None
    /\ Terminates(interp[m].code)
    /\ interp[m].pos = Len(Script(interp[m].code))
    /\ Publish(m, <<Msg("status", interp[m].busy, "idle", None)>>)
    /\ interp' = [interp EXCEPT ![m].busy = None, ![m].code = "", ![m].pos = 0]
    /\ UNCHANGED <<kernels, heap, shellq, tasks, resp, nextId, nextMsg, nRestarts,
                   shutdowns, gone>>
    /\ UNCHANGED agent

\* ------------------------------------------------------------------ execute
\* Faulty variant: the status does not look at the error
MakeResult_AlwaysSuccess(tk) ==
    [cell_id |-> tk.cell_id, execution_count |-> tk.execution_count,
     outputs |-> tk.outputs, error |-> tk.error, status |-> "success"]
\* The dict execute_cell returns.
MakeResult(tk) ==
    [cell_id |-> tk.cell_id,
     execution_count |-> tk.execution_count,
     outputs |-> tk.outputs,
     error |-> tk.error,
     \* `'error' if error else 'success'`: None is falsy, the three-key dict truthy
     status |-> IF tk.error # NoneDict THEN "error" ELSE "success"]

\* The message types the if/elif chain of the receive loop has a branch for.
BranchTypes == {"execute_input", "execute_result", "display_data", "stream",
                "error", "status"}

\* Faulty variant: a display_data event adds no output
Handle_DropsDisplay(tk, msg) ==
    CASE msg.msg_type = "execute_input" ->
            [tk EXCEPT !.execution_count = msg.execution_count]
      [] msg.msg_type = "execute_result" ->
            [tk EXCEPT !.outputs = Append(tk.outputs,
                [type |-> "execute_result", data |-> Content(msg),
                 execution_count |-> msg.execution_count])]
      [] msg.msg_type = "stream" ->
            [tk EXCEPT !.outputs = Append(tk.outputs,
                [type |-> "stream", name |-> "stdout",
                 text |-> Content(msg)])]
      [] msg.msg_type = "error" ->
            [tk EXCEPT !.error = [ename |-> "Error", evalue |-> Content(msg),
                                  traceback |-> <<Content(msg)>>],
                       !.sawError = TRUE]
      [] OTHER -> tk
\* One pass through the body of the receive loop for message msg: the locals
\* of execute_cell after the if/elif chain.
Handle(tk, msg) ==
    CASE msg.msg_type = "execute_input" ->
            [tk EXCEPT !.execution_count = msg.execution_count]
      [] msg.msg_type = "execute_result" ->
            [tk EXCEPT !.outputs = Append(tk.outputs,
                [type |-> "execute_result", data |-> Content(msg),
                 execution_count |-> msg.execution_count])]
      [] msg.msg_type = "display_data" ->
            [tk EXCEPT !.outputs = Append(tk.outputs,
                [type |-> "display_data", data |-> Content(msg)])]
      [] msg.msg_type = "stream" ->
            [tk EXCEPT !.outputs = Append(tk.outputs,
                [type |-> "stream", name |-> "stdout",
                 text |-> Content(msg)])]
      [] msg.msg_type = "error" ->
            [tk EXCEPT !.error = [ename |-> "Error", evalue |-> Content(msg),
                                  traceback |-> <<Content(msg)>>],
                       !.sawError = TRUE]
      [] OTHER -> tk

\* `break` out of the loop: execute_cell returns, the handler answers 200.
Return(tk, why) ==
    [tk EXCEPT !.pc = "done", !.outcome = "ok", !.endedBy = why,
               !.result = MakeResult(tk)]

\* main.execute_cell up to the first await of NotebookKernel.execute_cell.
Execute(t, sid, cid, code, cap) ==
    /\ Slot(t)
    /\ LET k == GetKernel(sid)
           req == [Arrival("execute", sid) EXCEPT
                      !.cell_id = cid, !.code = code, !.kernel = k,
                      \* history: no other request is in flight
                      !.alone = \A u \in Tasks : u # t => Free(u),
                      \* history: the process generation the request met
                      !.gen0 = IF k = None THEN 0
                               ELSE interp[heap[k].manager].gen]
       IN \/ /\ k = None
             /\ Begin(t, [req EXCEPT !.pc = "done", !.outcome = "not_found"])
          \/ \* RuntimeError("Kernel is not running"), answer 500
             /\ k # None /\ ~heap[k].is_running
             /\ Begin(t, [req EXCEPT !.pc = "done", !.outcome = "error",
                                     !.endedBy = "not_running"])
          \/ /\ k # None /\ heap[k].is_running
             /\ nextMsg + Cardinality({u \in Tasks : tasks[u].pc = "submit"})
                   <= cap
             /\ Begin(t, [req EXCEPT !.pc = "submit"])
    /\ UNCHANGED <<kernels, heap, interp, shellq, iopub, nextId, nextMsg,
                   nRestarts,
                   shutdowns, gone>>
    /\ UNCHANGED agent

\* client.execute(code) has run in the executor: the request is on the shell
\* channel; the locals are initialised and the loop awaits its first message.
Submit(t) ==
    /\ tasks[t].op = "execute" /\ tasks[t].pc = "submit"
    /\ LET k == tasks[t].kernel
           m == heap[k].manager
       IN \/ /\ heap[k].client = "open"
             /\ shellq' = [shellq EXCEPT ![m] =
                    Append(shellq[m], [msg_id |-> nextMsg,
                                       code |-> tasks[t].code])]
             /\ nextMsg' = nextMsg + 1
             /\ Commit(t, tasks, [tasks[t] EXCEPT !.pc = "recv",
                                                !.msg_id = nextMsg])
          \/ \* the channels were stopped meanwhile: the send raises, answer 500
             /\ heap[k].client # "open"
             /\ Commit(t, tasks, [tasks[t] EXCEPT !.pc = "done",
                                                   !.outcome = "error",
                                                   !.endedBy = "send_failed"])
             /\ UNCHANGED <<shellq, nextMsg>>
    /\ UNCHANGED <<kernels, heap, interp, iopub, nextId, nRestarts,
                   shutdowns, gone>>
    /\ UNCHANGED agent

\* get_iopub_msg returned a message.
RecvMsg(t) ==
    /\ tasks[t].op = "execute" /\ tasks[t].pc = "recv"
    /\ LET k == tasks[t].kernel
       IN /\ heap[k].client = "open" /\ iopub[k] # <<>>
          /\ LET msg == Head(iopub[k])
                 tk == [Handle(tasks[t], msg) EXCEPT
                           !.events = IF msg.msg_type \in BranchTypes
                                      THEN Append(tasks[t].events, msg)
                                      ELSE tasks[t].events]
             IN Commit(t, tasks,
                    IF msg.msg_type = "status" /\ msg.execution_state = "idle"
                    THEN Return(tk, "idle") ELSE tk)
          /\ iopub' = [iopub EXCEPT ![k] = Tail(iopub[k])]
    /\ UNCHANGED <<kernels, heap, interp, shellq, nextId, nextMsg, nRestarts,
                   shutdowns, gone>>
    /\ UNCHANGED agent

\* get_iopub_msg waited its 10 seconds and raised queue.Empty.
RecvEmpty(t) ==
    /\ tasks[t].op = "execute" /\ tasks[t].pc = "recv"
    /\ heap[tasks[t].kernel].client = "open"
    /\ iopub[tasks[t].kernel] = <<>>
    /\ Commit(t, tasks, Return(tasks[t], "empty"))
    /\ UNCHANGED <<kernels, heap, interp, shellq, iopub, nextId, nextMsg,
                   nRestarts, shutdowns, gone>>
    /\ UNCHANGED agent

\* get_iopub_msg raised because the channels were stopped.
RecvClosed(t) ==
    /\ tasks[t].op = "execute" /\ tasks[t].pc = "recv"
    /\ heap[tasks[t].kernel].client # "open"
    /\ Commit(t, tasks, Return(tasks[t], "closed"))
    /\ UNCHANGED <<kernels, heap, interp, shellq, iopub, nextId, nextMsg,
                   nRestarts, shutdowns, gone>>
    /\ UNCHANGED agent

\* ------------------------------------------------------------------ restart
\* main.restart_kernel up to the await of manager.restart_kernel.
Restart(t, sid) ==
    /\ Slot(t)
    /\ LET k == GetKernel(sid)
           req == [Arrival("restart", sid) EXCEPT !.kernel = k]
       IN \/ /\ k = None
             /\ Begin(t, [req EXCEPT !.pc = "done", !.outcome = "not_found"])
             /\ UNCHANGED nRestarts
          \/ /\ k # None
             /\ nRestarts < MaxRestarts
             /\ Begin(t, [req EXCEPT !.pc = "restarting"])
             /\ nRestarts' = nRestarts + 1
    /\ UNCHANGED <<kernels, heap, interp, shellq, iopub, nextId, nextMsg,
                   shutdowns, gone>>
    /\ UNCHANGED agent

\* KernelManager.restart_kernel as NotebookKernel.restart uses it: the
\* manager's process is replaced by a fresh one, which has none of the old
\* one's state and reads none of the requests sent to the old one.
RestartProcess(m) ==
    /\ interp' = [interp EXCEPT ![m] =
           [NoProcess EXCEPT !.alive = TRUE, !.gen = interp[m].gen + 1]]
    /\ shellq' = [shellq EXCEPT ![m] = <<>>]

\* Faulty variant: restart goes through shutdown and leaves the session marked
\* not running
RestartDone_MarksStopped(t) ==
    /\ tasks[t].op = "restart" /\ tasks[t].pc = "restarting"
    /\ RestartProcess(heap[tasks[t].kernel].manager)
    /\ heap' = [heap EXCEPT ![tasks[t].kernel].is_running = FALSE]
    /\ Commit(t, tasks, [tasks[t] EXCEPT !.pc = "done", !.outcome = "ok"])
    /\ UNCHANGED <<kernels, iopub, nextId, nextMsg, nRestarts,
                   shutdowns, gone>>
    /\ UNCHANGED agent
\* manager.restart_kernel has run in the executor; restart logs and returns,
\* the handler answers 200.
RestartDone(t) ==
    /\ tasks[t].op = "restart" /\ tasks[t].pc = "restarting"
    /\ RestartProcess(heap[tasks[t].kernel].manager)
    /\ Commit(t, tasks, [tasks[t] EXCEPT !.pc = "done", !.outcome = "ok"])
    /\ UNCHANGED <<kernels, heap, iopub, nextId, nextMsg, nRestarts,
                   shutdowns, gone>>
    /\ UNCHANGED agent

\* ---------------------------------------------------------------- interrupt
\* main.interrupt_kernel up to the await of manager.interrupt_kernel.
Interrupt(t, sid) ==
    /\ Slot(t)
    /\ LET k == GetKernel(sid)
           req == [Arrival("interrupt", sid) EXCEPT !.kernel = k]
       IN \/ /\ k = None
             /\ Begin(t, [req EXCEPT !.pc = "done", !.outcome = "not_found"])
          \/ /\ k # None
             /\ Begin(t, [req EXCEPT !.pc = "interrupting"])
    /\ UNCHANGED <<kernels, heap, interp, shellq, iopub, nextId, nextMsg,
                   nRestarts, shutdowns, gone>>
    /\ UNCHANGED agent

\* Faulty variant: interrupt returns only when no code is running any more
InterruptDone_Waits(t) ==
    /\ tasks[t].op = "interrupt" /\ tasks[t].pc = "interrupting"
    /\ interp[heap[tasks[t].kernel].manager].busy = None
    /\ LET m == heap[tasks[t].kernel].manager
       IN IF interp[m].alive
          THEN /\ interp' = [interp EXCEPT ![m].sigint = interp[m].busy # None]
               /\ Commit(t, tasks, [tasks[t] EXCEPT !.pc = "done", !.outcome = "ok"])
          ELSE /\ Commit(t, tasks, [tasks[t] EXCEPT !.pc = "done", !.outcome = "error"])
               /\ UNCHANGED interp
    /\ UNCHANGED <<kernels, heap, shellq, iopub, nextId, nextMsg, nRestarts,
                   shutdowns, gone>>
    /\ UNCHANGED agent
\* manager.interrupt_kernel has run in the executor: the signal is delivered
\* to a live process (the library raises when there is none, answer 500);
\* interrupt logs and returns.
InterruptDone(t) ==
    /\ tasks[t].op = "interrupt" /\ tasks[t].pc = "interrupting"
    /\ LET m == heap[tasks[t].kernel].manager
       IN IF interp[m].alive
          THEN /\ interp' = [interp EXCEPT ![m].sigint = interp[m].busy # None]
               /\ Commit(t, tasks, [tasks[t] EXCEPT !.pc = "done", !.outcome = "ok"])
          ELSE /\ Commit(t, tasks, [tasks[t] EXCEPT !.pc = "done", !.outcome = "error"])
               /\ UNCHANGED interp
    /\ UNCHANGED <<kernels, heap, shellq, iopub, nextId, nextMsg, nRestarts,
                   shutdowns, gone>>
    /\ UNCHANGED agent

\* The interpreter acts on the signal: the running code is aborted with a
\* KeyboardInterrupt error, then status idle.
KernelInterrupted(m) ==
    /\ m \in DOMAIN interp
    /\ interp[m].alive /\ interp[m].sigint /\ interp[m].busy # None
    /\ Publish(m, <<Msg("error", interp[m].busy, "", None),
                    Msg("status", interp[m].busy, "idle", None)>>)
    /\ interp' = [interp EXCEPT ![m].busy = None, ![m].code = "",
                                ![m].pos = 0, ![m].sigint = FALSE]
    /\ UNCHANGED <<kernels, heap, shellq, tasks, resp, nextId, nextMsg, nRestarts,
                   shutdowns, gone>>
    /\ UNCHANGED agent

\* ----------------------------------------------------- shutdown, shutdownAll
\* The keys of `keys` from the first one that KernelManagerService.shutdown_kernel
\* finds registered: the iterations before it fall through `if kernel:`.
RECURSIVE SkipAbsent(_, _)
SkipAbsent(keys, d) ==
    IF keys = <<>> THEN <<>>
    ELSE IF DictGet(d, Head(keys)) # None THEN keys
    ELSE SkipAbsent(Tail(keys), d)

\* `if self.client: self.client.stop_channels()` on object k: the heap after it.
Stopped(h, k) ==
    [h EXCEPT ![k].client = IF h[k].client = "none" THEN "none" ELSE "stopped"]
\* Stopping the channels discards what the client has not received.
Drained(q, h, k) ==
    [q EXCEPT ![k] = IF h[k].client = "none" THEN q[k] ELSE <<>>]

\* KernelManagerService.shutdown_kernel(Head(keys)), then the rest of `keys`,
\* run from registry d and heap h up to the next await (inside
\* NotebookKernel.shutdown, channels stopped) or, when no key of `keys` is
\* registered, to the return.  `ts` holds the other slots, `req` this one.
ShutdownFrom(t, ts, req, keys, d, h) ==
    LET left == SkipAbsent(keys, d)
    IN IF left = <<>>
       THEN /\ heap' = h
            /\ UNCHANGED iopub
            /\ Commit(t, ts, [req EXCEPT !.pc = "done", !.outcome = "ok",
                                          !.keys = <<>>])
       ELSE LET k == DictGet(d, Head(left))
            IN /\ heap' = Stopped(h, k)
               /\ iopub' = Drained(iopub, h, k)
               /\ Commit(t, ts, [req EXCEPT !.pc = "killing",
                                             !.sid = Head(left), !.kernel = k,
                                             !.keys = Tail(left)])

\* main.shutdown_kernel -> KernelManagerService.shutdown_kernel, up to the
\* await inside NotebookKernel.shutdown; an id that is not registered falls
\* through `if kernel:` and the handler answers 200.
Shutdown(t, sid) ==
    /\ Slot(t)
    /\ ShutdownFrom(t, Disturbed(t), Arrival("shutdown", sid),
                    <<sid>>, kernels, heap)
    /\ UNCHANGED <<kernels, interp, shellq, nextId, nextMsg, nRestarts,
                   shutdowns, gone>>
    /\ UNCHANGED agent

\* main.shutdown_event -> KernelManagerService.shutdown_all: the snapshot
\* list(self.kernels.keys()) and the loop up to its first await.
ShutdownAll(t) ==
    /\ Slot(t)
    /\ ShutdownFrom(t, Disturbed(t),
                    [IdleTask EXCEPT !.op = "shutdown_all",
                        !.snap = Registered,
                        !.alone = \A u \in Tasks : u # t => Free(u)],
                    Keys(kernels), kernels, heap)
    /\ UNCHANGED <<kernels, interp, shellq, nextId, nextMsg, nRestarts,
                   shutdowns, gone>>
    /\ UNCHANGED agent

\* manager.shutdown_kernel runs in the executor: the process is gone.
KillProcess(t) ==
    /\ tasks[t].op \in {"shutdown", "shutdown_all"} /\ tasks[t].pc = "killing"
    /\ LET k == tasks[t].kernel
           m == heap[k].manager
       IN /\ interp' = [interp EXCEPT ![m] =
                 [NoProcess EXCEPT !.gen = interp[m].gen]]
          /\ shellq' = [shellq EXCEPT ![m] = <<>>]
          /\ shutdowns' = [shutdowns EXCEPT ![k] = shutdowns[k] + 1]
    /\ Commit(t, tasks, [tasks[t] EXCEPT !.pc = "killed"])
    /\ UNCHANGED <<kernels, heap, iopub, nextId, nextMsg, nRestarts, gone>>
    /\ UNCHANGED agent

\* The await in NotebookKernel.shutdown is over: is_running = False, the
\* return to shutdown_kernel and its `del self.kernels[kernel_id]`, which
\* raises KeyError when the entry is gone (the handler answers 500); then the
\* handler's response, or the next iterations of shutdown_all's loop.
ShutdownDone(t) ==
    /\ tasks[t].op \in {"shutdown", "shutdown_all"} /\ tasks[t].pc = "killed"
    /\ LET sid == tasks[t].sid
           off == [heap EXCEPT ![tasks[t].kernel].is_running = FALSE]
       IN IF DictGet(kernels, sid) = None
          THEN /\ heap' = off
               /\ Commit(t, tasks, [tasks[t] EXCEPT !.pc = "done", !.outcome = "error"])
               /\ UNCHANGED <<kernels, iopub, gone>>
          ELSE /\ kernels' = DictDel(kernels, sid)
               /\ gone' = IF tasks[t].op = "shutdown"
                          THEN gone \cup {sid} ELSE gone
               /\ ShutdownFrom(t, tasks, tasks[t], tasks[t].keys,
                               DictDel(kernels, sid), off)
    /\ UNCHANGED <<interp, shellq, nextId, nextMsg, nRestarts, shutdowns>>
    /\ UNCHANGED agent

\* ------------------------------------------------------- the specifications
\* The steps of a create or execute request in flight.
ExecStep(t) ==
    \/ StartKernelDone(t)
    \/ StartKernelFail(t)
    \/ Submit(t)
    \/ RecvMsg(t)
    \/ RecvEmpty(t)

\* The steps of an interpreter running code that finishes.
KernelStep(m) ==
    \/ KernelTake(m)
    \/ KernelEmit(m)
    \/ KernelIdle(m)

\* The lifecycle specification: every operation of the session manager, on up
\* to MaxKernels sessions, with code that finishes.
Next ==
    \/ \E t \in Tasks :
        \/ CreateKernel(t, MaxKernels)
        \/ \E sid \in KernelIds, cid \in CellIds, code \in LifeCodes :
              Execute(t, sid, cid, code, LifeExecs)
        \/ \E sid \in KernelIds : Restart(t, sid)
        \/ \E sid \in KernelIds : Interrupt(t, sid)
        \/ \E sid \in KernelIds : Shutdown(t, sid)
        \/ ShutdownAll(t)
        \/ ExecStep(t)
        \/ RecvClosed(t)
        \/ RestartDone(t)
        \/ InterruptDone(t)
        \/ KillProcess(t)
        \/ ShutdownDone(t)
    \/ \E m \in KernelIds :
        \/ KernelStep(m)
        \/ KernelInterrupted(m)

Spec == Init /\ [][Next]_vars

\* The execution specification: createSession and execute on up to ExecKernels
\* sessions, with every kind of code.
ExecNext ==
    \/ \E t \in Tasks :
        \/ CreateKernel(t, ExecKernels)
        \/ \E sid \in 1..ExecKernels, cid \in CellIds, code \in Codes :
              Execute(t, sid, cid, code, MaxExecs)
        \/ ExecStep(t)
    \/ \E m \in 1..ExecKernels :
        \/ KernelStep(m)
        \/ KernelSpin(m)

ExecSpec == Init /\ [][ExecNext]_vars

\* The event loop runs every handler whose awaited call has completed, the
\* executor completes every call it was given, and a live interpreter process
\* keeps running: no step that stays possible is postponed forever.  Nothing
\* obliges a client to send a request.
FairExecSpec ==
    /\ ExecSpec
    /\ \A t \in Tasks : WF_vars(ExecStep(t))
    /\ \A m \in 1..ExecKernels : WF_vars(KernelStep(m) \/ KernelSpin(m))


\* ============================================== the reasoning service's text
\* A reply of the reasoning service is free text.  The model keeps of a text
\* what the decoder looks at: a sequence of pieces, each one of
\*   "w"         prose without braces or fences
\*   "{" , "}"   a brace
\*   "full"      the members of a plan object with all six RepairPlan fields
\*   "part"      the members of an object with only some of them
\*   "ticks"     the members of an object with one str member whose value
\*               ends in three backquotes
\*   "[]"        a JSON document that is not an object (an array, a number)
\*   "fence_json" three backquotes and the label json
\*   "fence"      three backquotes
Tokens == {"w", "{", "}", "full", "part", "ticks", "[]", "fence_json",
           "fence"}

\* The texts of at most n pieces.
TextsUpTo(n) == UNION {[1..k -> Tokens] : k \in 0..n}

\* The six fields of AnalyzeErrorResponse, all required.
PlanFields == {"analysis", "cells_to_fix", "fixes", "restart_needed",
               "continue_from_cell", "explanation"}

\* What "{" "full" "}" decodes to: a plan that differs from the fallback plan
\* in every field.  A str is kept as the sequence of its parts, a dict as the
\* set of its items.
FullPlan ==
    [analysis |-> <<"NameError: x is set in c1">>,
     cells_to_fix |-> <<"c1", "c2">>,
     fixes |-> {<<"c1", "x = 1">>, <<"c2", "print(x)">>},
     restart_needed |-> TRUE,
     continue_from_cell |-> "c1",
     explanation |-> <<"define x first">>]
\* What "{" "part" "}" decodes to.
PartPlan ==
    [analysis |-> <<"NameError: x is set in c1">>,
     cells_to_fix |-> <<"c1">>]
\* What "{" "ticks" "}" decodes to.
TicksPlan == [analysis |-> <<"wrap it in ", "fence">>]
\* What "{" "}" decodes to.
EmptyObject == [f \in {} |-> <<>>]

\* json.loads(s): the value of a text that is one JSON document and nothing
\* else, JSONDecodeError for every other text.
JsonLoads(s) ==
    CASE s = <<"{", "full", "}">> ->
            [ok |-> TRUE, json |-> "object", value |-> FullPlan]
      [] s = <<"{", "part", "}">> ->
            [ok |-> TRUE, json |-> "object", value |-> PartPlan]
      [] s = <<"{", "ticks", "}">> ->
            [ok |-> TRUE, json |-> "object", value |-> TicksPlan]
      [] s = <<"{", "}">> ->
            [ok |-> TRUE, json |-> "object", value |-> EmptyObject]
      [] s = <<"[]">> ->
            [ok |-> TRUE, json |-> "array", value |-> EmptyObject]
      [] OTHER ->
            [ok |-> FALSE, json |-> "", value |-> EmptyObject,
             err |-> "JSONDecodeError"]

\* The least element of a non-empty set of numbers.
Least(S) == CHOOSE i \in S : \A j \in S : i <= j
\* The greatest element of a non-empty set of numbers.
Greatest(S) == CHOOSE i \in S : \A j \in S : i >= j

\* The pieces that hold three backquotes: where the closing fence of the
\* pattern can match.  It may be the head of another json fence, or the
\* backquotes inside a str of the payload.
Backquotes == {"fence", "fence_json", "ticks"}
\* re.search of (fence)json\s*(.*?)\s*(fence) in response, re.DOTALL: the places where
\* a match can start.
FenceStarts(s) ==
    {i \in 1..Len(s) : /\ s[i] = "fence_json"
                       /\ \E j \in (i+1)..Len(s) : s[j] \in Backquotes}
\* group(1) of the leftmost match, the shortest one from there.  A match that
\* closes inside a str keeps the text before its backquotes, which holds no
\* brace and no fence.
FenceGroup(s) ==
    LET i == Least(FenceStarts(s))
        j == Least({k \in (i+1)..Len(s) : s[k] \in Backquotes})
    IN SubSeq(s, i + 1, j - 1) \o (IF s[j] = "ticks" THEN <<"w">> ELSE <<>>)

\* re.search(r'\{.*\}', response, re.DOTALL): the places where a match can
\* start.
BraceStarts(s) ==
    {i \in 1..Len(s) : /\ s[i] = "{"
                       /\ \E j \in (i+1)..Len(s) : s[j] = "}"}
\* group(0) of the leftmost match, the longest one from there.
BraceGroup(s) ==
    LET i == Least(BraceStarts(s))
        j == Greatest({k \in (i+1)..Len(s) : s[k] = "}"})
    IN SubSeq(s, i, j)

\* Faulty variant: a text that cannot be decoded yields the empty object
ParseJsonResponse_Lenient(response) ==
    LET inner == IF FenceStarts(response) # {} THEN FenceGroup(response)
                 ELSE response
        whole == JsonLoads(inner)
        found == IF BraceStarts(inner) # {} THEN JsonLoads(BraceGroup(inner))
                 ELSE whole
    IN IF whole.ok THEN whole
       ELSE IF found.ok THEN found
       ELSE [ok |-> TRUE, json |-> "object", value |-> EmptyObject]
\* NotebookAgent._parse_json_response: the decoded value, or the exception it
\* raises.
ParseJsonResponse(response) ==
    LET inner == IF FenceStarts(response) # {} THEN FenceGroup(response)
                 ELSE response
        whole == JsonLoads(inner)
    IN IF whole.ok THEN whole
       ELSE IF BraceStarts(inner) # {}
            \* json.loads(json_match.group(0)): its JSONDecodeError is not
            \* caught here
            THEN JsonLoads(BraceGroup(inner))
            ELSE [ok |-> FALSE, json |-> "", value |-> EmptyObject,
                  err |-> "ValueError: Could not parse JSON from response"]

\* ---------------------------------------------------------------- the decoder
\* The longest text of the decoder specification.
MaxTextLen == 5

\* A call of _parse_json_response with the text `response`.
DecodeCall(response) ==
    [op |-> "decode", pc |-> "called", response |-> response,
     out |-> [ok |-> FALSE, json |-> "", value |-> EmptyObject, err |-> ""]]

\* The decoder is called with a text of at most MaxTextLen pieces.
DecodeInit ==
    /\ \E text \in TextsUpTo(MaxTextLen) : agent = DecodeCall(text)
    /\ NoSessions

\* _parse_json_response runs to its return or to the exception it raises.
Decode ==
    /\ agent.op = "decode" /\ agent.pc = "called"
    /\ agent' = [agent EXCEPT !.pc = "done",
                              !.out = ParseJsonResponse(agent.response)]
    /\ UNCHANGED <<kernels, heap, interp, shellq, iopub, tasks, resp, nextId,
                   nextMsg, nRestarts, shutdowns, gone>>

\* The decoder specification: the decoder applied to every text of at most
\* MaxTextLen pieces.
DecodeNext == Decode

DecodeSpec == DecodeInit /\ [][DecodeNext]_vars


\* ====================================================== the notebook context
\* The most cells of a notebook the serializer specification renders.
MaxCells == 2

\* highlight_cell=None: no cell id equals it.
NoHighlight == ""
\* The cell ids and the codes of the notebooks rendered.
ContextIds == {"c1", "c2", "c3"}
ContextCodes == {"x = 1", "print(x)"}

\* The outputs a cell brings, as execute_cell builds them.
StreamOutput == [type |-> "stream", name |-> "stdout", text |-> "1"]
ResultOutput(mimes) ==
    [type |-> "execute_result", data |-> [m \in mimes |-> <<m, "1">>],
     execution_count |-> 1]
DisplayOutput == [type |-> "display_data", data |-> [m \in {"image/png"} |-> <<m, "1">>]]
NameError ==
    [ename |-> "NameError", evalue |-> "name 'x' is not defined",
     traceback |-> <<"Traceback (most recent call last)", "NameError: x">>]

\* What a cell has besides its id and code: never run, run with a stream and a
\* result, run with outputs that have no plain text, failed.
CellRuns ==
    {[execution_count |-> None, outputs |-> <<>>, error |-> NoneDict],
     [execution_count |-> 1,
      outputs |-> <<StreamOutput, ResultOutput({"text/plain", "text/html"})>>,
      error |-> NoneDict],
     [execution_count |-> 1,
      outputs |-> <<DisplayOutput, ResultOutput({"text/html"})>>,
      error |-> NoneDict],
     [execution_count |-> 1, outputs |-> <<StreamOutput>>,
      error |-> NameError]}

\* The NotebookCell objects of the notebooks rendered.
ContextCells ==
    {[cell_id |-> id, code |-> code, execution_count |-> run.execution_count,
      outputs |-> run.outputs, error |-> run.error] :
        id \in ContextIds, code \in ContextCodes, run \in CellRuns}
\* The notebooks of at most n cells, every cell with an id of its own.
NotebooksUpTo(n) ==
    UNION {{cells \in [1..k -> ContextCells] :
                \A i \in 1..k : \A j \in 1..k :
                    cells[i].cell_id = cells[j].cell_id => i = j} :
           k \in 0..n}

\* The lines of `for output in cell.outputs`: a stream as name and text, an
\* execute_result as its text/plain when it has one, nothing for the rest.
OutputParts(outputs) ==
    LET Shown(o) == \/ o.type = "stream"
                    \/ /\ o.type = "execute_result"
                       /\ "text/plain" \in DOMAIN o.data
        shown == SelectSeq(outputs, Shown)
    IN [n \in 1..Len(shown) |->
           IF shown[n].type = "stream"
           THEN [line |-> "  name: text", name |-> shown[n].name,
                 text |-> shown[n].text]
           ELSE [line |-> "  Result:",
                 text |-> shown[n].data["text/plain"]]]

\* Faulty variant: the sections are numbered from zero
CellContext_ZeroBased(i, cell, highlight_cell) ==
    <<[line |-> "--- Cell", number |-> i - 1, id |-> cell.cell_id,
       marker |-> (cell.cell_id = highlight_cell)],
      [line |-> "Code:", text |-> cell.code]>>
\* One pass of the loop `for i, cell in enumerate(cells)` (i counted from 1
\* here, so the i+1 of the header is i): the parts appended to context_parts.
CellContext(i, cell, highlight_cell) ==
    <<[line |-> "--- Cell", number |-> i, id |-> cell.cell_id,
       marker |-> (cell.cell_id = highlight_cell)],
      [line |-> "Code:", text |-> cell.code]>>
    \o (IF cell.execution_count # None
        THEN <<[line |-> "Execution count:", count |-> cell.execution_count]>>
        ELSE <<>>)
    \o (IF cell.outputs # <<>>
        THEN <<[line |-> "Outputs:"]>> \o OutputParts(cell.outputs)
        ELSE <<>>)
    \o (IF cell.error # NoneDict
        THEN <<[line |-> "ERROR:", ename |-> cell.error.ename,
                evalue |-> cell.error.evalue],
               [line |-> "Traceback:", traceback |-> cell.error.traceback]>>
        ELSE <<>>)

\* context_parts after the first n cells.
RECURSIVE ContextParts(_, _, _)
ContextParts(cells, highlight_cell, n) ==
    IF n = 0 THEN <<>>
    ELSE ContextParts(cells, highlight_cell, n - 1)
             \o CellContext(n, cells[n], highlight_cell)

\* NotebookAgent._build_notebook_context: the parts that the newline joins.
BuildNotebookContext(cells, highlight_cell) ==
    ContextParts(cells, highlight_cell, Len(cells))

\* A call of _build_notebook_context.
ContextCall(cells, highlight_cell) ==
    [op |-> "context", pc |-> "called", cells |-> cells,
     highlight_cell |-> highlight_cell, out |-> <<>>]

\* The serializer is called with a notebook of at most MaxCells cells, with or
\* without a highlighted cell id.
ContextInit ==
    /\ \E cells \in NotebooksUpTo(MaxCells) :
          \E hl \in ContextIds \cup {NoHighlight} :
              agent = ContextCall(cells, hl)
    /\ NoSessions

\* _build_notebook_context runs to its return.
BuildContext ==
    /\ agent.op = "context" /\ agent.pc = "called"
    /\ agent' = [agent EXCEPT
                    !.pc = "done",
                    !.out = BuildNotebookContext(agent.cells,
                                                 agent.highlight_cell)]
    /\ UNCHANGED <<kernels, heap, interp, shellq, iopub, tasks, resp, nextId,
                   nextMsg, nRestarts, shutdowns, gone>>

\* The serializer specification.
ContextNext == BuildContext

ContextSpec == ContextInit /\ [][ContextNext]_vars


\* ============================================================ the repair plan
\* The longest reply text of the repair-plan specification.
MaxReplyLen == 5
\* The ids a request names as the failing cell.
CellNames == {"c1", "c2"}
\* str(e) of what the reasoning call raises (network, quota, configuration).
ServiceErrors == {"APIConnectionError", "OpenAI client not configured"}

\* The locals of main.analyze_error and NotebookAgent.analyze_error.
PlanRequest(cid) ==
    [op |-> "analyze_error", pc |-> "awaiting", error_cell_id |-> cid,
     reply |-> <<>>, raised |-> "", decoded |-> FALSE, fellBack |-> FALSE,
     result |-> [json |-> "", value |-> EmptyObject],
     outcome |-> "", response |-> EmptyObject]

\* Faulty variant: the fallback names no cell to fix
Fallback_NoCell(cid, e) ==
    [json |-> "object",
     value |-> [analysis |-> <<"Error in analysis: ", e>>,
                cells_to_fix |-> <<>>,
                fixes |-> {},
                restart_needed |-> FALSE,
                continue_from_cell |-> cid,
                explanation |-> <<"Using fallback strategy">>]]
\* The dict the `except Exception as e` branch of analyze_error returns.
Fallback(cid, e) ==
    [json |-> "object",
     value |-> [analysis |-> <<"Error in analysis: ", e>>,
                cells_to_fix |-> <<cid>>,
                fixes |-> {},
                restart_needed |-> FALSE,
                continue_from_cell |-> cid,
                explanation |-> <<"Using fallback strategy">>]]

\* Faulty variant: fields of the fallback plan replace the decoded ones
Decoded_Defaulted(parsed, cid) ==
    IF parsed.json = "object" /\ "restart_needed" \in DOMAIN parsed.value
    THEN [json |-> "object",
          value |-> [parsed.value EXCEPT !.restart_needed = FALSE]]
    ELSE [json |-> parsed.json, value |-> parsed.value]
\* `return parsed_response`: the decoded value as it is.
Decoded(parsed, cid) == [json |-> parsed.json, value |-> parsed.value]

\* AnalyzeErrorResponse(**result) in main.analyze_error: `**` of a value that
\* is not a mapping raises TypeError, a missing required field raises
\* ValidationError (both answered 500); fields the model does not declare are
\* dropped.
MakeResponse(rq, result) ==
    IF result.json = "object" /\ PlanFields \subseteq DOMAIN result.value
    THEN [rq EXCEPT !.pc = "done", !.result = result, !.outcome = "ok",
                    !.response = [f \in PlanFields |-> result.value[f]]]
    ELSE [rq EXCEPT !.pc = "done", !.result = result, !.outcome = "error"]

\* main.analyze_error -> NotebookAgent.analyze_error, up to the await of the
\* reasoning call in _generate_response.
AnalyzeError(cid) ==
    /\ agent.pc \in {"idle", "done"}
    /\ agent' = PlanRequest(cid)
    /\ UNCHANGED <<kernels, heap, interp, shellq, iopub, tasks, resp, nextId,
                   nextMsg, nRestarts, shutdowns, gone>>

\* The reasoning call returns a text of at most n pieces:
\* _parse_json_response, the return of analyze_error (the decoded value, or
\* the fallback when the decoder raised) and the handler's response.
PlanReply(n) ==
    /\ agent.op = "analyze_error" /\ agent.pc = "awaiting"
    /\ \E text \in TextsUpTo(n) :
          LET parsed == ParseJsonResponse(text)
              rq == [agent EXCEPT !.reply = text, !.decoded = parsed.ok,
                                  !.fellBack = ~parsed.ok]
          IN agent' = MakeResponse(rq,
                          IF parsed.ok
                          THEN Decoded(parsed, agent.error_cell_id)
                          ELSE Fallback(agent.error_cell_id, parsed.err))
    /\ UNCHANGED <<kernels, heap, interp, shellq, iopub, tasks, resp, nextId,
                   nextMsg, nRestarts, shutdowns, gone>>

\* The reasoning call raises: the fallback, and the handler's response.
PlanRaise ==
    /\ agent.op = "analyze_error" /\ agent.pc = "awaiting"
    /\ \E e \in ServiceErrors :
          agent' = MakeResponse([agent EXCEPT !.raised = e, !.fellBack = TRUE],
                                Fallback(agent.error_cell_id, e))
    /\ UNCHANGED <<kernels, heap, interp, shellq, iopub, tasks, resp, nextId,
                   nextMsg, nRestarts, shutdowns, gone>>

\* The repair-plan specification: analyze_error requests, one after the
\* other, answered by every reply text of at most MaxReplyLen pieces or by an
\* exception.
PlanNext ==
    \/ \E cid \in CellNames : AnalyzeError(cid)
    \/ PlanReply(MaxReplyLen)
    \/ PlanRaise

PlanSpec == Init /\ [][PlanNext]_vars


\* ==================================================================== chat
\* The most tool calls one reply of the reasoning service requests.
MaxToolCalls == 2

\* NotebookCell.to_dict() of a cell that has not been run.
Cell(id, code) ==
    [cell_id |-> id, code |-> code, execution_count |-> None,
     outputs |-> <<>>, error |-> NoneDict]
\* The notebooks a chat request brings.
Notebooks ==
    {<<>>, <<Cell("c1", "x = 1")>>,
     <<Cell("c1", "x = 1"), Cell("c2", "print(x)")>>}

\* The model names a request may give, with the provider _get_provider and
\* the reasoning flag _is_reasoning_model derive from them.
ModelNames == {"gpt-4o-mini", "o1-mini", "gemini-pro"}
Provider(model) == IF model = "gemini-pro" THEN "gemini" ELSE "openai"
IsReasoningModel(model) == model = "o1-mini"

\* The tools of CellTool.get_tools_definition, sent with every request.
ToolsDefinition ==
    {"read_cells", "update_cell", "insert_cell", "delete_cell", "run_cell"}
\* The tools the system message of chat tells the reasoning service it has.
SystemMessageTools == ToolsDefinition \cup {"run_terminal_command"}

\* The conversation histories a chat request brings: none, or one earlier
\* exchange.
Histories ==
    {<<>>,
     <<[role |-> "system", content |-> "system_message"],
       [role |-> "user", content |-> "context and earlier message"],
       [role |-> "assistant", content |-> "earlier answer"]>>}

\* The tool calls a reply may request: name and decoded arguments.  "c9" and
\* the empty string name no cell of any notebook.
ToolRequests ==
    {[name |-> "read_cells", arguments |-> EmptyObject],
     [name |-> "read_cells", arguments |-> [cell_id |-> "c1"]],
     [name |-> "read_cells", arguments |-> [cell_id |-> "c9"]],
     [name |-> "read_cells", arguments |-> [cell_id |-> ""]],
     [name |-> "update_cell",
      arguments |-> [cell_id |-> "c1", code |-> "x = 2", reason |-> "fix"]],
     [name |-> "update_cell",
      arguments |-> [cell_id |-> "c9", code |-> "x = 2", reason |-> "fix"]],
     [name |-> "update_cell", arguments |-> [code |-> "x = 2"]],
     [name |-> "insert_cell",
      arguments |-> [code |-> "y = 2", index |-> 0, reason |-> "setup"]],
     [name |-> "insert_cell", arguments |-> [code |-> "y = 2"]],
     [name |-> "delete_cell", arguments |-> [cell_id |-> "c1", reason |-> "dup"]],
     [name |-> "delete_cell", arguments |-> [cell_id |-> "c9", reason |-> "dup"]],
     [name |-> "run_cell", arguments |-> [cell_id |-> "c1"]],
     [name |-> "run_terminal_command", arguments |-> [command |-> "ls"]],
     [name |-> "rename_cell", arguments |-> [cell_id |-> "c1"]]}

\* choice.finish_reason as the service sets it.
FinishReasons == {"stop", "tool_calls", "length"}

\* The replies of chat.completions.create: message.content (None or a text),
\* message.tool_calls, choice.finish_reason.
Replies(n) ==
    [content : {"", "done"},
     tool_calls : UNION {[1..k -> ToolRequests] : k \in 0..n},
     finish_reason : FinishReasons]

\* dict.get(key, default)
Get(d, key, default) == IF key \in DOMAIN d THEN d[key] ELSE default

\* What a tool function does when it indexes an argument that is missing.
KeyError == [raised |-> "KeyError"]
Raised(r) == "raised" \in DOMAIN r

\* The dict _read_cells builds of a cell.
CellView(cell) ==
    [id |-> cell.cell_id, code |-> cell.code, outputs |-> cell.outputs,
     error |-> cell.error]

\* CellTool._read_cells
ReadCells(args, cells) ==
    LET cell_id == Get(args, "cell_id", "")
        hits == {i \in 1..Len(cells) : cells[i].cell_id = cell_id}
    IN IF cell_id # ""
       THEN IF hits # {}
            THEN [success |-> TRUE, cell |-> CellView(cells[Least(hits)])]
            ELSE [success |-> FALSE, error |-> <<"Cell ", cell_id, " not found">>]
       ELSE [success |-> TRUE,
             cells |-> [i \in 1..Len(cells) |-> CellView(cells[i])]]

\* CellTool._update_cell
UpdateCell(args, cells) ==
    IF {"cell_id", "code"} \subseteq DOMAIN args
    THEN [action |-> "update_cell", cell_id |-> args.cell_id,
          code |-> args.code, reason |-> Get(args, "reason", ""),
          success |-> TRUE]
    ELSE KeyError

\* CellTool._insert_cell
InsertCell(args, cells) ==
    IF "code" \in DOMAIN args
    THEN [action |-> "insert_cell", code |-> args.code,
          index |-> Get(args, "index", -1), reason |-> Get(args, "reason", ""),
          success |-> TRUE]
    ELSE KeyError

\* CellTool._delete_cell
DeleteCell(args, cells) ==
    IF "cell_id" \in DOMAIN args
    THEN [action |-> "delete_cell", cell_id |-> args.cell_id,
          reason |-> Get(args, "reason", ""), success |-> TRUE]
    ELSE KeyError

\* CellTool._run_cell
RunCell(args, cells) ==
    IF "cell_id" \in DOMAIN args
    THEN [action |-> "run_cell", cell_id |-> args.cell_id, success |-> TRUE]
    ELSE KeyError

\* CellTool.execute_tool
ExecuteTool(tool_name, arguments, cells_state) ==
    CASE tool_name = "read_cells" -> ReadCells(arguments, cells_state)
      [] tool_name = "update_cell" -> UpdateCell(arguments, cells_state)
      [] tool_name = "insert_cell" -> InsertCell(arguments, cells_state)
      [] tool_name = "delete_cell" -> DeleteCell(arguments, cells_state)
      [] tool_name = "run_cell" -> RunCell(arguments, cells_state)
      [] OTHER -> [error |-> <<"Unknown tool: ", tool_name>>]


\* The loop over message.tool_calls in _chat_with_tools_openai: the records
\* appended to tool_calls, or the exception that ends the loop.  No tool
\* function assigns to cells_state.
RECURSIVE RunTools(_, _, _)
RunTools(calls, cells_state, tool_calls) ==
    IF calls = <<>>
    THEN [raised |-> "", tool_calls |-> tool_calls, cells |-> cells_state]
    ELSE LET tool_name == Head(calls).name
             tool_args == Head(calls).arguments
             tool_result == ExecuteTool(tool_name, tool_args, cells_state)
         IN IF Raised(tool_result)
            THEN [raised |-> tool_result.raised, tool_calls |-> tool_calls,
                  cells |-> cells_state]
            ELSE RunTools(Tail(calls), cells_state,
                          Append(tool_calls,
                                 [id |-> Len(tool_calls) + 1,
                                  name |-> tool_name,
                                  arguments |-> tool_args,
                                  result |-> tool_result]))

\* The messages a user may send.
UserMessages == {"fix the error", "add a plot"}

\* context_message: the serialized notebook and the user's message.
ContextMessage(cells, user_message) ==
    [role |-> "user",
     content |-> [notebook_context |-> BuildNotebookContext(cells, NoHighlight),
                  user_message |-> user_message]]

\* Faulty variant: the system message is put in front of every conversation
Messages_AlwaysSystem(history, cells, user_message) ==
    <<[role |-> "system", content |-> "system_message"]>>
    \o history \o <<ContextMessage(cells, user_message)>>
\* The message list chat builds from the history it was given:
\* `conversation_history or []`, the system message `if not messages`, the
\* context message.
Messages(history, cells, user_message) ==
    (IF history = <<>>
     THEN <<[role |-> "system", content |-> "system_message"]>>
     ELSE history)
    \o <<ContextMessage(cells, user_message)>>

\* What is sent to the reasoning service: api_params of
\* _chat_with_tools_openai, or the one prompt _chat_without_tools extracts.
ApiParams(model, messages) ==
    IF Provider(model) = "openai"
    THEN [model |-> model, messages |-> messages, tools |-> ToolsDefinition,
          control |-> IF IsReasoningModel(model) THEN {"reasoning_effort"}
                      ELSE {"temperature"}]
    ELSE [model |-> model, messages |-> <<messages[Len(messages)]>>,
          tools |-> {}, control |-> {}]

\* The locals of main.chat_with_agent, NotebookAgent.chat and
\* _chat_with_tools_openai at the await of the reasoning call.
ChatRequest(cells, user_message, history, model) ==
    [op |-> "chat", pc |-> "awaiting", model |-> model,
     request_cells |-> cells, cells_state |-> cells,
     user_message |-> user_message,
     history |-> history,
     messages |-> Messages(history, cells, user_message),
     sent |-> ApiParams(model, Messages(history, cells, user_message)),
     calls |-> 1,
     reply |-> [content |-> "", tool_calls |-> <<>>, finish_reason |-> ""],
     raised |-> "", outcome |-> "",
     result |-> [message |-> "", tool_calls |-> <<>>, finish_reason |-> ""]]

\* main.chat_with_agent -> NotebookAgent.chat, up to the await of the
\* reasoning call.
Chat(cells, user_message, history, model) ==
    /\ agent.pc \in {"idle", "done"}
    /\ agent' = ChatRequest(cells, user_message, history, model)
    /\ UNCHANGED <<kernels, heap, interp, shellq, iopub, tasks, resp, nextId,
                   nextMsg, nRestarts, shutdowns, gone>>

\* chat.completions.create returns a reply with at most n tool calls: the
\* tool loop, the returned dict and the handler's response; an exception of a
\* tool function goes up to the handler, which answers 500.
ChatReply(n) ==
    /\ agent.op = "chat" /\ agent.pc = "awaiting"
    /\ Provider(agent.model) = "openai"
    /\ \E reply \in Replies(n) :
          LET run == RunTools(reply.tool_calls, agent.cells_state, <<>>)
          IN agent' =
                IF run.raised # ""
                THEN [agent EXCEPT !.pc = "done", !.reply = reply,
                                   !.raised = run.raised, !.outcome = "error"]
                ELSE [agent EXCEPT
                        !.pc = "done", !.reply = reply, !.outcome = "ok",
                        !.cells_state = run.cells,
                        !.result =
                            [message |-> IF reply.content = ""
                                         THEN "I'm working on it..."
                                         ELSE reply.content,
                             tool_calls |-> run.tool_calls,
                             finish_reason |-> reply.finish_reason]]
    /\ UNCHANGED <<kernels, heap, interp, shellq, iopub, tasks, resp, nextId,
                   nextMsg, nRestarts, shutdowns, gone>>

\* _chat_without_tools: the Gemini reply is returned as the message.
ChatReplyWithoutTools ==
    /\ agent.op = "chat" /\ agent.pc = "awaiting"
    /\ Provider(agent.model) = "gemini"
    /\ \E text \in {"", "done"} :
          agent' = [agent EXCEPT
                      !.pc = "done", !.outcome = "ok",
                      !.reply = [content |-> text, tool_calls |-> <<>>,
                                 finish_reason |-> ""],
                      !.result = [message |-> text, tool_calls |-> <<>>,
                                  finish_reason |-> "stop"]]
    /\ UNCHANGED <<kernels, heap, interp, shellq, iopub, tasks, resp, nextId,
                   nextMsg, nRestarts, shutdowns, gone>>

\* The reasoning call raises: the handler answers 500.
ChatRaise ==
    /\ agent.op = "chat" /\ agent.pc = "awaiting"
    /\ \E e \in ServiceErrors :
          agent' = [agent EXCEPT !.pc = "done", !.raised = e,
                                 !.outcome = "error"]
    /\ UNCHANGED <<kernels, heap, interp, shellq, iopub, tasks, resp, nextId,
                   nextMsg, nRestarts, shutdowns, gone>>

\* The chat specification: chat requests, one after the other, on every
\* notebook, history and model, answered by every reply of at most
\* MaxToolCalls tool calls or by an exception.
ChatNext ==
    \/ \E cells \in Notebooks, user_message \in UserMessages,
          history \in Histories, model \in ModelNames :
          Chat(cells, user_message, history, model)
    \/ ChatReply(MaxToolCalls)
    \/ ChatReplyWithoutTools
    \/ ChatRaise

ChatSpec == Init /\ [][ChatNext]_vars


\* =================================================================== claims
\* An execute call between its code submission and its return.
Executing(t) == tasks[t].op = "execute" /\ tasks[t].pc = "recv"
\* It has taken at least one event off the session's event stream.
Consumed(t) ==
    \/ tasks[t].execution_count # None
    \/ tasks[t].outputs # <<>>
    \/ tasks[t].error # NoneDict

\* C1: two execute calls on the same session never interleave: at no time are
\* two calls both between code submission and return on one session, each
\* having consumed events of that session's stream.
C1_ExecutionsSerialized ==
    \A t, u \in Tasks :
        (t # u /\ Executing(t) /\ Executing(u) /\ Consumed(t) /\ Consumed(u))
            => tasks[t].kernel # tasks[u].kernel

\* A result the caller can tell from the result of a completed execution.
HasIncompleteMarker(r) ==
    \/ "incomplete" \in DOMAIN r
    \/ r.status \notin {"success", "error"}

\* C2: an execution whose event stream ended (receive timeout or closed
\* channel) before the idle status returns a result that carries an
\* incomplete-result marker.
C2_IncompleteIsMarked ==
    (resp.op = "execute" /\ resp.outcome = "ok" /\ resp.endedBy # "idle")
        => HasIncompleteMarker(resp.result)

\* C3: the status of a returned execution result is the failure status if and
\* only if its error field is set, which is the case if and only if an error
\* event was received during the execution; otherwise it is success.
C3_StatusIffError ==
    (resp.op = "execute" /\ resp.outcome = "ok") =>
        /\ resp.result.status \in {"error", "success"}
        /\ resp.result.status = "error" <=> resp.result.error # NoneDict
        /\ resp.result.error # NoneDict <=> resp.sawError

\* C3, its case: an execution that received an error event has returned.
C3_Witness ==
    /\ resp.op = "execute" /\ resp.outcome = "ok"
    /\ resp.sawError /\ resp.result.status = "error"

\* C4: every execute call eventually returns, whatever the interpreter emits.
C4_ExecuteReturns ==
    \A t \in Tasks : (tasks[t].op = "execute" /\ InFlight(t)) ~> Free(t)

\* C5: a single shutdown call on an id that is not registered ends with the
\* session-not-found outcome.
C5_UnknownShutdownFails ==
    (resp.op = "shutdown" /\ ~resp.reg) => resp.outcome = "not_found"

\* The object registered under id, read off the registry itself.
RegisteredRef(id) ==
    kernels[CHOOSE i \in 1..Len(kernels) : kernels[i].id = id].ref

\* C6 (state part): once shutdown_all has returned, having run with no other
\* operation in flight, the registry is empty and every session that was
\* registered when it was called has been shut down exactly once.
C6_AfterShutdownAll ==
    (/\ resp.op = "shutdown_all" /\ resp.outcome = "ok" /\ resp.alone
     /\ \A t \in Tasks : tasks[t].op # "shutdown_all")
        => /\ kernels = <<>>
           /\ \A id \in resp.snap :
                 \A k \in DOMAIN heap :
                     heap[k].kernel_id = id => shutdowns[k] = 1

\* C6 (step part): shutdown_all called on an empty registry returns without
\* error and changes nothing.
C6_EmptyIsNoOp ==
    (/\ kernels = <<>>
     /\ \A t \in Tasks : tasks[t].op # "shutdown_all"
     /\ resp' # resp /\ resp'.op = "shutdown_all")
        => /\ resp'.outcome = "ok"
           /\ UNCHANGED <<kernels, heap, interp, shellq, iopub, shutdowns>>

\* C6: shutdown_all empties the registry, shuts every registered session down
\* exactly once, and is a no-op without error on an empty registry.
C6_ShutdownAll == []C6_AfterShutdownAll /\ [][C6_EmptyIsNoOp]_vars

\* C6, its case: shutdown_all, running alone, has returned after shutting
\* down two registered sessions.
C6_Witness ==
    /\ resp.op = "shutdown_all" /\ resp.outcome = "ok" /\ resp.alone
    /\ Cardinality(resp.snap) >= 2
    /\ kernels = <<>>

\* C7 (state part): an id whose shutdown returned successfully is not in the
\* registry, its session is marked not running, and every execute, interrupt
\* or restart request that arrived later was answered session-not-found.
C7_ShutDownStaysGone ==
    /\ \A id \in gone :
          /\ id \notin Registered
          /\ \A k \in DOMAIN heap :
                heap[k].kernel_id = id => ~heap[k].is_running
    /\ \A t \in Tasks :
          tasks[t].op \in {"execute", "interrupt", "restart"}
              => ~tasks[t].late
    /\ (resp.late /\ resp.op \in {"execute", "interrupt", "restart"})
          => resp.outcome = "not_found"

\* C7 (step part): the step in which a single shutdown returns successfully
\* removes that id's entry and leaves every other registry entry as it was.
C7_RemovesOnlyThatEntry ==
    \A t \in Tasks :
        (/\ tasks[t].op = "shutdown" /\ tasks[t].pc = "killed"
         /\ tasks'[t].pc = "idle" /\ resp'.outcome = "ok")
            => /\ tasks[t].sid \in Registered
               /\ kernels' = SelectSeq(kernels,
                                       LAMBDA e : e.id # tasks[t].sid)

\* C7: after a successful shutdown the id is gone for good and nothing else
\* changed in the registry.
C7_Shutdown == []C7_ShutDownStaysGone /\ [][C7_RemovesOnlyThatEntry]_vars

\* C7, its case: an execute request that arrived after the shutdown of its
\* session had returned has been answered, while another session is registered.
C7_Witness ==
    /\ resp.op = "execute" /\ resp.late /\ resp.outcome = "not_found"
    /\ Registered # {}

\* C8 (state part): an execute request whose id was not registered when it
\* arrived is answered session-not-found and has submitted no code.
C8_UnknownIsNotFound ==
    /\ \A t \in Tasks : tasks[t].op = "execute" => tasks[t].reg
    /\ (resp.op = "execute" /\ ~resp.reg)
          => resp.outcome = "not_found" /\ resp.msg_id = None

\* C8 (step part): the step that answers it changes neither the registry nor
\* any session, and puts nothing on a shell channel.
C8_UnknownChangesNothing ==
    (resp' # resp /\ resp'.op = "execute" /\ ~resp'.reg)
        => UNCHANGED <<kernels, heap, interp, shellq, iopub, nextMsg>>

\* C8: execute on an unknown session id fails with session-not-found, submits
\* nothing and leaves the registry unchanged.
C8_ExecuteUnknown == []C8_UnknownIsNotFound /\ [][C8_UnknownChangesNothing]_vars

\* C8, its case: an execute on an id that was never created was answered while
\* a session is registered.
C8_Witness ==
    /\ resp.op = "execute" /\ ~resp.reg /\ ~resp.late
    /\ resp.outcome = "not_found"
    /\ Registered # {}

\* C9 (step part): the steps of a restart of a registered session change
\* neither the registry nor any session object (identifier, running flag).
C9_RestartKeepsRegistry ==
    \A t \in Tasks :
        (\/ tasks[t].pc = "idle" /\ tasks'[t].pc = "restarting"
         \/ tasks[t].pc = "restarting" /\ tasks'[t].pc = "idle")
            => kernels' = kernels /\ heap' = heap

\* C9 (state part): after restart has returned, the id, while registered, maps
\* to the object restart was called on, which is marked running; and an
\* execute that arrives for a registered session after its restart is
\* accepted (neither session-not-found nor "Kernel is not running").
C9_AfterRestart ==
    /\ (resp.op = "restart" /\ resp.outcome = "ok" /\ resp.sid \in Registered)
          => /\ RegisteredRef(resp.sid) = resp.kernel
             /\ heap[resp.kernel].kernel_id = resp.sid
             /\ heap[resp.kernel].is_running
    /\ (resp.op = "execute" /\ resp.reg /\ resp.gen0 > 1)
          => /\ resp.outcome # "not_found"
             /\ resp.endedBy # "not_running"

\* C9: restart preserves the session identifier, its registry entry and its
\* running flag, and the session accepts execute afterwards.
C9_Restart == []C9_AfterRestart /\ [][C9_RestartKeepsRegistry]_vars

\* C9, its case: an execute that arrived after the restart of its session had
\* replaced the process was accepted and ran to the idle status.
C9_Witness ==
    /\ resp.op = "execute" /\ resp.gen0 > 1
    /\ resp.outcome = "ok" /\ resp.endedBy = "idle"

\* A shutdown of object k is between its lookup and its `del`.
ShuttingDown(k) ==
    \E t \in Tasks :
        /\ tasks[t].op \in {"shutdown", "shutdown_all"}
        /\ tasks[t].pc \in {"killing", "killed"}
        /\ tasks[t].kernel = k

\* C10 (state part): the registered ids are pairwise distinct and map to
\* pairwise distinct objects with pairwise distinct interpreter processes;
\* each registered object carries its id and, unless it is being shut down,
\* its manager runs a live process.
C10_ExclusiveProcess ==
    /\ \A i, j \in 1..Len(kernels) :
          i # j => /\ kernels[i].id # kernels[j].id
                   /\ kernels[i].ref # kernels[j].ref
                   /\ Pid(kernels[i].ref) # Pid(kernels[j].ref)
    /\ \A i \in 1..Len(kernels) :
          LET k == kernels[i].ref
          IN /\ heap[k].kernel_id = kernels[i].id
             /\ ~ShuttingDown(k) => interp[heap[k].manager].alive

\* C10 (step part): the id a createSession registers and returns differs from
\* every id registered at that time.
C10_FreshId ==
    \A t \in Tasks :
        (/\ tasks[t].op = "create" /\ tasks[t].pc = "start"
         /\ tasks'[t].pc = "idle" /\ resp'.outcome = "ok")
            => /\ tasks[t].sid \notin Registered
               /\ resp'.sid = tasks[t].sid
               /\ Registered' = Registered \cup {tasks[t].sid}

\* C10: every registered session owns one interpreter process that no other
\* registered session shares, and createSession mints a fresh id.
C10_Ownership == []C10_ExclusiveProcess /\ [][C10_FreshId]_vars

\* C10, its case: two sessions are registered, one of them restarted, and no
\* operation is in flight.
C10_Witness ==
    /\ Len(kernels) >= 2
    /\ \E i \in 1..Len(kernels) : interp[heap[kernels[i].ref].manager].gen > 1
    /\ \A t \in Tasks : Free(t)

\* C11: registry mutations are mutually exclusive: no session's interpreter
\* is shut down more than once, and no shutdown or shutdown_all fails because
\* the entry it had looked up was removed by another operation meanwhile.
C11_RegistryExclusive ==
    /\ \A k \in DOMAIN heap : shutdowns[k] <= 1
    /\ ~(resp.op \in {"shutdown", "shutdown_all"} /\ resp.outcome = "error")

\* The repair-plan request answered last.
PlanDone == agent.op = "analyze_error" /\ agent.pc = "done"

\* C18: whenever the reasoning call or the decode step raised, the plan
\* analyze_error returns has cells_to_fix = [error_cell_id], no fixes,
\* restart_needed false, continue_from_cell = error_cell_id and an analysis
\* that carries the text of the error.
C18_FallbackPlan ==
    (PlanDone /\ (agent.raised # "" \/ ~agent.decoded)) =>
        LET plan == agent.result.value
            e == IF agent.raised # "" THEN agent.raised
                 ELSE ParseJsonResponse(agent.reply).err
        IN /\ agent.result.json = "object"
           /\ plan.cells_to_fix = <<agent.error_cell_id>>
           /\ plan.fixes = {}
           /\ plan.restart_needed = FALSE
           /\ plan.continue_from_cell = agent.error_cell_id
           /\ \E i \in 1..Len(plan.analysis) : plan.analysis[i] = e

\* C18, its case: the decoder raised on a reply that holds braces but no
\* payload, and the fallback plan for cell c2 was returned.
C18_Witness ==
    /\ PlanDone /\ ~agent.decoded /\ agent.raised = ""
    /\ BraceStarts(agent.reply) # {}
    /\ agent.error_cell_id = "c2"
    /\ agent.result.value.cells_to_fix = <<"c2">>

\* C19: whatever the reasoning service replies, the repair-plan request does
\* not end in a hard failure: it returns a plan with all six fields.
C19_AlwaysAPlan ==
    PlanDone => /\ agent.outcome = "ok"
                /\ DOMAIN agent.response = PlanFields

\* A text that holds the well-formed plan and, around it, at most prose and
\* one json-labelled fenced block.
ProseOnly(s) == \A i \in 1..Len(s) : s[i] = "w"
WellFormedReply(s) ==
    \E i \in 1..Len(s) :
        /\ i + 2 <= Len(s)
        /\ SubSeq(s, i, i + 2) = <<"{", "full", "}">>
        /\ \/ ProseOnly(SubSeq(s, 1, i - 1)) /\ ProseOnly(SubSeq(s, i + 3, Len(s)))
           \/ /\ i > 1 /\ s[i - 1] = "fence_json"
              /\ i + 3 <= Len(s) /\ s[i + 3] = "fence"
              /\ ProseOnly(SubSeq(s, 1, i - 2))
              /\ ProseOnly(SubSeq(s, i + 4, Len(s)))

\* C20: when the reply is a well-formed structured plan, analyze_error returns
\* exactly the decoded fields, and so does the response built from them.
C20_PlanVerbatim ==
    (PlanDone /\ agent.raised = "" /\ WellFormedReply(agent.reply)) =>
        /\ agent.result = [json |-> "object", value |-> FullPlan]
        /\ agent.outcome = "ok"
        /\ agent.response = FullPlan

\* C20, its case: a plan wrapped in prose was decoded and returned.
C20_Witness ==
    /\ PlanDone /\ agent.raised = "" /\ WellFormedReply(agent.reply)
    /\ Len(agent.reply) > 3
    /\ agent.result.value.restart_needed

\* The chat request answered last, and its tool records.
ChatDone == agent.op = "chat" /\ agent.pc = "done"
ChatReturned == ChatDone /\ agent.outcome = "ok"

\* The keys of the dict _chat_with_tools_openai returns.
ChatResultKeys == {"message", "tool_calls", "finish_reason"}
\* A chat result the caller can tell from one of a clean finish: it has a
\* field for it, or a finish_reason the loop (not the service) has set.
HasTurnLimitMarker(r) ==
    \/ DOMAIN r # ChatResultKeys
    \/ r.finish_reason \notin FinishReasons

\* C12: when the last reply a chat request received still requested tool
\* calls (the service asks for tools on every call), the request has ended at
\* the turn cap and its result carries a turn-limit-reached marker.
C12_TurnCapMarked ==
    (ChatReturned /\ agent.reply.tool_calls # <<>>) =>
        HasTurnLimitMarker(agent.result)

\* The ids of the cells of a notebook.
CellIdsOf(cells) == {cells[i].cell_id : i \in 1..Len(cells)}

\* C13: within one turn each action sees what the action before it did: a
\* read_cells of a cell right after an update_cell of it returns the new code,
\* and a read_cells of all cells right after an insert_cell returns one cell
\* more than the request brought.
C13_SeesEarlierActions ==
    ChatReturned =>
        \A i \in 1..(Len(agent.result.tool_calls) - 1) :
            LET a == agent.result.tool_calls[i]
                b == agent.result.tool_calls[i + 1]
            IN /\ (/\ a.name = "update_cell" /\ b.name = "read_cells"
                   /\ a.arguments.cell_id \in CellIdsOf(agent.request_cells)
                   /\ Get(b.arguments, "cell_id", "") = a.arguments.cell_id)
                      => /\ b.result.success
                         /\ b.result.cell.code = a.arguments.code
               /\ (/\ a.name = "insert_cell" /\ b.name = "read_cells"
                   /\ Get(b.arguments, "cell_id", "") = "")
                      => Len(b.result.cells) = Len(agent.request_cells) + 1

\* C14: a chat whose reply requests insert_cell(code, index 0) ends with a
\* unit sequence one longer than the original, the new unit first and the
\* others in their order, after exactly two reasoning calls.
C14_InsertThenDone ==
    (/\ ChatReturned
     /\ Len(agent.reply.tool_calls) = 1
     /\ agent.reply.tool_calls[1].name = "insert_cell"
     /\ Get(agent.reply.tool_calls[1].arguments, "index", -1) = 0) =>
        /\ Len(agent.cells_state) = Len(agent.request_cells) + 1
        /\ agent.cells_state[1].code = agent.reply.tool_calls[1].arguments.code
        /\ SubSeq(agent.cells_state, 2, Len(agent.cells_state))
              = agent.request_cells
        /\ agent.calls = 2

\* The arguments the tool definitions declare as required.
Required(name) ==
    CASE name = "update_cell" -> {"cell_id", "code", "reason"}
      [] name = "insert_cell" -> {"code", "reason"}
      [] name = "delete_cell" -> {"cell_id", "reason"}
      [] name = "run_cell" -> {"cell_id"}
      [] OTHER -> {}
\* A requested action that cannot be carried out on the notebook `cells`.
CannotBeDone(rq, cells) ==
    \/ rq.name \notin SystemMessageTools
    \/ ~(Required(rq.name) \subseteq DOMAIN rq.arguments)
    \/ /\ rq.name \in {"update_cell", "delete_cell"}
       /\ "cell_id" \in DOMAIN rq.arguments
       /\ rq.arguments.cell_id \notin CellIdsOf(cells)
\* A failed outcome.
Failed(r) ==
    \/ "error" \in DOMAIN r
    \/ "success" \in DOMAIN r /\ ~r.success

\* C15: when the reasoning call itself did not raise, the chat request does not
\* end in an error; every requested action has its record, and the record of
\* an action that cannot be carried out holds a failed outcome.
C15_FailedActionOnly ==
    (ChatDone /\ agent.raised \notin ServiceErrors) =>
        /\ agent.outcome = "ok"
        /\ Len(agent.result.tool_calls) = Len(agent.reply.tool_calls)
        /\ \A i \in 1..Len(agent.result.tool_calls) :
              CannotBeDone(agent.reply.tool_calls[i], agent.request_cells)
                  => Failed(agent.result.tool_calls[i].result)

\* The fields of an ExecutionResult.
ExecutionResultFields ==
    {"cell_id", "execution_count", "outputs", "error", "status"}

\* C16: the record of a run_cell action on an existing cell holds the
\* ExecutionResult of an execution of that cell.
C16_RunCellExecutes ==
    ChatReturned =>
        \A i \in 1..Len(agent.result.tool_calls) :
            LET rec == agent.result.tool_calls[i]
            IN (/\ rec.name = "run_cell"
                /\ rec.arguments.cell_id \in CellIdsOf(agent.request_cells))
                  => /\ ExecutionResultFields \subseteq DOMAIN rec.result
                     /\ rec.result.cell_id = rec.arguments.cell_id

\* C17: the record of a run_terminal_command action holds the captured
\* standard output, standard error and exit code, and is never the
\* unknown-tool outcome.
C17_ShellCommandRuns ==
    ChatReturned =>
        \A i \in 1..Len(agent.result.tool_calls) :
            LET rec == agent.result.tool_calls[i]
            IN rec.name = "run_terminal_command"
                  => /\ rec.result # [error |-> <<"Unknown tool: ", rec.name>>]
                     /\ {"stdout", "stderr", "exit_code"}
                            \subseteq DOMAIN rec.result

\* ------------------------------------------------------------ decoder claims
\* The call of the decoder has ended.
DecodeDone == agent.op = "decode" /\ agent.pc = "done"
\* Prose: text without any brace or fence.
IsProse(text) == \A i \in 1..Len(text) : text[i] = "w"
\* The text is the valid payload text[i..j] in a fenced block labelled json,
\* with or without prose around the block.
FencedAt(text, i, j) ==
    /\ 1 < i /\ i <= j /\ j < Len(text)
    /\ JsonLoads(SubSeq(text, i, j)).ok
    /\ text[i - 1] = "fence_json" /\ text[j + 1] = "fence"
    /\ IsProse(SubSeq(text, 1, i - 2))
    /\ IsProse(SubSeq(text, j + 2, Len(text)))

\* C21: for every valid payload p, decoding a text that wraps p in a fenced
\* block labelled as structured data, with or without prose around it, yields
\* the same object as decoding p alone.
C21_FencedIsBare ==
    DecodeDone =>
        \A i \in 1..Len(agent.response) : \A j \in 1..Len(agent.response) :
            FencedAt(agent.response, i, j)
                => agent.out = ParseJsonResponse(SubSeq(agent.response, i, j))

\* A text holds no structured payload: no part of it is a JSON document.
NoPayload(text) ==
    \A i \in 1..Len(text) : \A j \in i..Len(text) :
        ~JsonLoads(SubSeq(text, i, j)).ok
\* The text has a brace.
HasBrace(text) == \E i \in 1..Len(text) : text[i] \in {"{", "}"}

\* C22: decoding a text that holds no structured payload (pure prose, with or
\* without stray braces that form no valid payload) fails with the decode
\* error; the decoder never returns an object for such a text.
C22_NoPayloadFails ==
    (DecodeDone /\ NoPayload(agent.response))
        => /\ ~agent.out.ok
           /\ agent.out.err \in
                 {"JSONDecodeError",
                  "ValueError: Could not parse JSON from response"}
C22_Witness ==
    /\ DecodeDone /\ NoPayload(agent.response) /\ ~agent.out.ok
    /\ HasBrace(agent.response)
    /\ \E i \in 1..Len(agent.response) : agent.response[i] = "w"

\* The text has a fenced block labelled json.
HasFencedBlock(text) == FenceStarts(text) # {}
\* The text has exactly one pair of braces, and it encloses a valid payload.
OnlyPayloadAt(text, i, j) ==
    /\ i < j /\ text[i] = "{" /\ text[j] = "}"
    /\ \A k \in 1..Len(text) : text[k] \in {"{", "}"} => k \in {i, j}
    /\ JsonLoads(SubSeq(text, i, j)).ok

\* C27: the three stages of the decoder are tried in order on the original
\* text: when the contents of a fenced block do not parse, the whole original
\* text and then its brace-delimited substring are still tried, so a valid
\* payload outside an unparsable fenced block is recovered.
C27_StagesOnOriginalText ==
    (DecodeDone /\ HasFencedBlock(agent.response)
                /\ ~JsonLoads(FenceGroup(agent.response)).ok)
        => \A i \in 1..Len(agent.response) : \A j \in 1..Len(agent.response) :
              OnlyPayloadAt(agent.response, i, j)
                  => agent.out = JsonLoads(SubSeq(agent.response, i, j))

\* The braces opened and not closed in text[i..k].
Depth(text, i, k) ==
    Cardinality({m \in i..k : text[m] = "{"})
        - Cardinality({m \in i..k : text[m] = "}"})
\* text[i..j] is the first balanced brace-delimited part of the text.
FirstBalanced(text, i, j) ==
    /\ i < j /\ text[i] = "{"
    /\ \A m \in 1..(i - 1) : text[m] # "{"
    /\ Depth(text, i, j) = 0
    /\ \A k \in i..(j - 1) : Depth(text, i, k) > 0

\* C28: for a text that is neither fenced nor parsable as a whole the decoder
\* parses the first balanced brace-delimited part: a valid payload followed by
\* prose with a further closing brace, or by a second braced group, decodes to
\* that first payload and does not fail.
C28_FirstBalancedBraces ==
    (DecodeDone /\ ~HasFencedBlock(agent.response)
                /\ ~JsonLoads(agent.response).ok)
        => \A i \in 1..Len(agent.response) : \A j \in 1..Len(agent.response) :
              (/\ FirstBalanced(agent.response, i, j)
               /\ JsonLoads(SubSeq(agent.response, i, j)).ok)
                  => agent.out = JsonLoads(SubSeq(agent.response, i, j))

\* --------------------------------------------------------- serializer claims
\* The call of the serializer has returned.
ContextDone == agent.op = "context" /\ agent.pc = "done"
\* Where the sections of a context start: its header parts.
Headers(out) == {i \in 1..Len(out) : out[i].line = "--- Cell"}
\* The k-th smallest number of S.
Nth(S, k) == CHOOSE i \in S : Cardinality({j \in S : j <= i}) = k
\* The parts of the k-th section: from its header up to the next header.
Section(out, k) ==
    {i \in 1..Len(out) :
        /\ Nth(Headers(out), k) <= i
        /\ k < Cardinality(Headers(out)) => i < Nth(Headers(out), k + 1)}

\* C23: for every cell sequence with unique ids the output has one section per
\* cell in the input order, the k-th section is numbered k (1-based) and names
\* the k-th cell's id, and each cell's code is in the output verbatim exactly
\* once, in its section.
C23_OneSectionPerCell ==
    ContextDone =>
        /\ Cardinality(Headers(agent.out)) = Len(agent.cells)
        /\ \A k \in 1..Len(agent.cells) :
              LET header == agent.out[Nth(Headers(agent.out), k)]
                  codes == {i \in Section(agent.out, k) :
                               agent.out[i].line = "Code:"}
              IN /\ header.number = k
                 /\ header.id = agent.cells[k].cell_id
                 /\ Cardinality(codes) = 1
                 /\ \A i \in codes : agent.out[i].text = agent.cells[k].code
C23_Witness ==
    /\ ContextDone /\ Len(agent.cells) = 2
    /\ agent.cells[1].cell_id = "c2" /\ agent.cells[2].cell_id = "c1"
    /\ agent.cells[1].code = agent.cells[2].code
    /\ agent.cells[2].error # NoneDict
    /\ agent.out[Nth(Headers(agent.out), 2)].id = "c1"

\* --------------------------------------------------------------- chat claims
\* A request has been handed to the reasoning service.
RequestSent == agent.op = "chat"
\* The control parameter the family of a model calls for.
FamilyParameter(model) ==
    IF IsReasoningModel(model) THEN "reasoning_effort" ELSE "temperature"

\* C24: every request to the reasoning service carries exactly one of the two
\* control parameters, chosen by the model's identity alone: reasoning_effort
\* for a reasoning model, temperature for every other model; no request
\* carries both and none carries neither.
C24_OneControlParameter ==
    RequestSent => agent.sent.control = {FamilyParameter(agent.model)}

\* C29: every executed tool action yields a result record with the action's
\* name, arguments and outcome, in the order requested and one per requested
\* action, and each record is appended to the conversation as a tool-result
\* message before the next reasoning call.
C29_ResultsJoinConversation ==
    ChatReturned =>
        /\ Len(agent.result.tool_calls) = Len(agent.reply.tool_calls)
        /\ \A i \in 1..Len(agent.result.tool_calls) :
              /\ agent.result.tool_calls[i].name = agent.reply.tool_calls[i].name
              /\ agent.result.tool_calls[i].arguments
                    = agent.reply.tool_calls[i].arguments
              /\ "result" \in DOMAIN agent.result.tool_calls[i]
              /\ \E m \in 1..Len(agent.messages) :
                    /\ agent.messages[m].role = "tool"
                    /\ agent.messages[m].content = agent.result.tool_calls[i]

\* C30: the conversation is append-only: after chat(cells, message, history)
\* the message list has the given history as an unchanged prefix, then a
\* system message only when the history was empty, then one user message that
\* holds the serialized notebook context and the user's message; no earlier
\* message is removed, reordered or rewritten.
C30_ConversationAppendOnly ==
    agent.op = "chat" =>
        LET h == Len(agent.history)
            system == IF agent.history = <<>> THEN 1 ELSE 0
            last == agent.messages[Len(agent.messages)]
        IN /\ Len(agent.messages) = h + system + 1
           /\ \A i \in 1..h : agent.messages[i] = agent.history[i]
           /\ system = 1 => agent.messages[1].role = "system"
           /\ last.role = "user"
           /\ last.content.user_message = agent.user_message
           /\ last.content.notebook_context
                 = BuildNotebookContext(agent.request_cells, NoHighlight)
C30_Witness ==
    /\ ChatReturned
    /\ agent.history # <<>> /\ agent.request_cells # <<>>
    /\ agent.result.tool_calls # <<>>
    /\ Len(agent.messages) = Len(agent.history) + 1

\* ---------------------------------------------------------- normalizer claims
\* An execution has returned its result.
ExecutionReturned == resp.op = "execute" /\ resp.outcome = "ok"
\* The error events the execution received, in arrival order.
ErrorEvents(events) ==
    LET IsError(msg) == msg.msg_type = "error" IN SelectSeq(events, IsError)
\* The events that carry an output.
OutputTypes == {"stream", "execute_result", "display_data"}
OutputEvents(events) ==
    LET IsOutput(msg) == msg.msg_type \in OutputTypes
    IN SelectSeq(events, IsOutput)
\* The payload an output holds, whatever its type.
Payload(output) ==
    IF output.type = "stream" THEN output.text ELSE output.data

\* C25: an execution has at most one error record and the first error event
\* wins: the record names the first error event received, later error events
\* at most extend its traceback.
C25_FirstErrorWins ==
    (ExecutionReturned /\ ErrorEvents(resp.events) # <<>>)
        => /\ resp.result.error # NoneDict
           /\ resp.result.error.evalue = Content(ErrorEvents(resp.events)[1])
           /\ resp.result.error.traceback[1]
                 = Content(ErrorEvents(resp.events)[1])

\* C26: the outputs of an execution result are exactly the stream,
\* execute_result and display_data events received during that execution, one
\* output per event in arrival order; input-echo, error and status events add
\* no output, and no output event is reordered, merged or dropped.
C26_OutputsAreOutputEvents ==
    ExecutionReturned =>
        LET received == OutputEvents(resp.events)
        IN /\ Len(resp.result.outputs) = Len(received)
           /\ \A i \in 1..Len(received) :
                 /\ resp.result.outputs[i].type = received[i].msg_type
                 /\ Payload(resp.result.outputs[i]) = Content(received[i])
C26_Witness ==
    /\ ExecutionReturned
    /\ Len(resp.result.outputs) = 3
    /\ resp.result.outputs[1].type = "stream"
    /\ resp.result.outputs[2].type = "display_data"
    /\ resp.result.outputs[3].type = "execute_result"
    /\ Len(resp.events) > 3

\* ---------------------------------------------------------- read_cells claim
\* The places of the cells with the id cell_id.
CellsWithId(cells, cell_id) ==
    {i \in 1..Len(cells) : cells[i].cell_id = cell_id}
\* What read_cells is to return for the arguments args on the cells `cells`.
ReadsRight(args, cells, result) ==
    IF "cell_id" \notin DOMAIN args
    THEN /\ result.success
         /\ "cells" \in DOMAIN result
         /\ Len(result.cells) = Len(cells)
         /\ \A i \in 1..Len(cells) :
               /\ result.cells[i].id = cells[i].cell_id
               /\ result.cells[i].code = cells[i].code
               /\ result.cells[i].outputs = cells[i].outputs
               /\ result.cells[i].error = cells[i].error
    ELSE IF CellsWithId(cells, args.cell_id) # {}
    THEN /\ result.success
         /\ "cell" \in DOMAIN result
         /\ \E i \in CellsWithId(cells, args.cell_id) :
               /\ result.cell.id = cells[i].cell_id
               /\ result.cell.code = cells[i].code
               /\ result.cell.outputs = cells[i].outputs
               /\ result.cell.error = cells[i].error
    ELSE ~result.success

\* C31: read_cells returns the live state and changes nothing: with a cell id
\* that is present it returns that cell's id, code, outputs and error, with no
\* cell id all cells in sequence order, with a cell id that is absent a failed
\* outcome; in all three cases the cell sequence is left unchanged.
C31_ReadCellsReadsOnly ==
    ChatReturned =>
        \A i \in 1..Len(agent.result.tool_calls) :
            agent.result.tool_calls[i].name = "read_cells"
                => /\ ReadsRight(agent.result.tool_calls[i].arguments,
                                 agent.request_cells,
                                 agent.result.tool_calls[i].result)
                   /\ agent.cells_state = agent.request_cells

\* -------------------------------------------------------- stale event claim
\* The events an execution counted in its result, or ended on.
Counted(msg) ==
    \/ msg.msg_type \in OutputTypes \cup {"error", "execute_input"}
    \/ msg.msg_type = "status" /\ msg.execution_state = "idle"

\* C32: every event placed in an execute call's result was produced by the
\* interpreter for that call's own code submission: events left unread from an
\* earlier execution of the session are never counted in a later execution's
\* outputs, error or execution_count, and a stale idle event never ends a
\* later execution early.  The case is an execution during which no other
\* request was in flight: every event it receives that is not its own is one
\* left by an earlier execution.
C32_NoStaleEvents ==
    (ExecutionReturned /\ resp.alone) =>
        /\ \A i \in 1..Len(resp.result.outputs) :
              Payload(resp.result.outputs[i])[1] = resp.msg_id
        /\ resp.result.error # NoneDict
              => resp.result.error.evalue[1] = resp.msg_id
        /\ \A i \in 1..Len(resp.events) :
              Counted(resp.events[i]) => resp.events[i].parent = resp.msg_id

\* ------------------------------------------------------------ registry claim
\* The session object ref has been started successfully: its process was
\* launched and its channels were opened.
Started(ref) ==
    /\ interp[heap[ref].manager].gen > 0
    /\ heap[ref].client # "none"

\* C33: in every reachable state every registered session has been started
\* successfully and is marked running: a createSession whose interpreter start
\* fails registers nothing, and no session that shutdown has marked not
\* running is still in the registry once the shutdown call has returned.
C33_RegisteredAreRunning ==
    /\ \A i \in 1..Len(kernels) :
          /\ Started(kernels[i].ref)
          /\ heap[kernels[i].ref].is_running
    /\ (resp.op = "create" /\ resp.outcome = "error")
          => resp.sid \notin Registered
    /\ (resp.op = "shutdown" /\ resp.pc = "done" /\ resp.reg)
          => resp.sid \notin Registered
C33_Witness ==
    /\ resp.op = "shutdown" /\ resp.outcome = "ok" /\ resp.reg
    /\ ~heap[resp.kernel].is_running
    /\ \E k \in DOMAIN heap : ~Started(k) /\ heap[k].kernel_id \notin Registered
                              /\ \A t \in Tasks : tasks[t].kernel # k

\* ----------------------------------------------------------- interrupt claim
\* An execute call is in flight in slot u.
ExecuteInFlight(u) == tasks[u].op = "execute" /\ tasks[u].pc \in {"submit", "recv"}

\* C34 (state part): an interrupt whose signal is being delivered can return
\* at once, whatever the interpreter is running.
C34_NeverWaits ==
    \A t \in Tasks :
        (tasks[t].op = "interrupt" /\ tasks[t].pc = "interrupting")
            => ENABLED InterruptDone(t)

\* C34 (step part): the steps of an interrupt change neither the registry nor
\* any running flag, and leave every execution in flight where it is, with
\* the outputs, error and execution count it has collected.
C34_InterruptFrame ==
    \A t \in Tasks :
        (\/ tasks[t].pc = "idle" /\ tasks'[t].pc = "interrupting"
         \/ tasks[t].pc = "interrupting" /\ tasks'[t].pc = "idle")
            => /\ kernels' = kernels
               /\ \A k \in DOMAIN heap :
                     heap'[k].is_running = heap[k].is_running
               /\ \A u \in Tasks :
                     ExecuteInFlight(u)
                         => /\ tasks'[u].pc = tasks[u].pc
                            /\ tasks'[u].outputs = tasks[u].outputs
                            /\ tasks'[u].error = tasks[u].error
                            /\ tasks'[u].execution_count
                                  = tasks[u].execution_count

\* C34: interrupt returns as soon as the signal has been delivered, without
\* waiting for a running execution to end, and leaves the registry, the
\* session's running flag and the outputs collected by an execution in flight
\* unchanged; the execution may still be in flight afterwards.
C34_Interrupt == []C34_NeverWaits /\ [][C34_InterruptFrame]_vars

\* C34, its case: interrupt has returned while the execution it interrupts is
\* still in flight, the interpreter not having acted on the signal yet.
C34_Witness ==
    /\ resp.op = "interrupt" /\ resp.outcome = "ok"
    /\ interp[heap[resp.kernel].manager].sigint
    /\ \E u \in Tasks :
          /\ ExecuteInFlight(u) /\ tasks[u].pc = "recv"
          /\ tasks[u].kernel = resp.kernel
          /\ tasks[u].execution_count # None

=============================================================================
